---- MODULE Spec2Model ----
(***************************************************************************)
(* D-Patient Dex Pro v2 (src/appv1.py): the SQLite store (users, patients, *)
(* visits), the functions that operate on it, and the Streamlit sessions   *)
(* that drive them.                                                        *)
(*                                                                         *)
(* Text values are modelled as the program builds them: a date column is   *)
(* the character string strftime('%Y-%m-%d') produces (a sequence of ASCII *)
(* codes, compared as SQLite's BINARY collation compares it), the tags     *)
(* column is the JSON text json.dumps produces (a sequence of tokens).     *)
(* Python's None / SQL NULL is the value NULL; Python's True / False /     *)
(* None as a return value are the strings "True", "False", "None".         *)
(***************************************************************************)
EXTENDS Integers, Sequences, FiniteSets, TLC

VARIABLES
    users,          \* table users: set of [username, password_hash]
    patients,       \* table patients as the shared connection sees it: sequence of rows, row i has id i
    visits,         \* table visits as the shared connection sees it: sequence of rows, row i has id i
    disk,           \* the committed contents [patients, visits] (state at the last conn.commit())
    ret,            \* the last call made on the store and what it returned
    session_state,  \* st.session_state of each browser session
    pc,             \* where each session's script run stands
    local,          \* each session's script-run locals and rendered widgets
    lastWrite,      \* history: per patient id, the username written by the last executed UPDATE
    authed          \* history: per session, the username of its last successful login since its last logout

vars == <<users, patients, visits, disk, ret, session_state, pc, local, lastWrite, authed>>

(***************************************************************************)
(* Bounds of the model.                                                    *)
(***************************************************************************)
MaxPatients == 2
MaxVisits == 2
MaxTagVisits == 3
MaxFormVisits == 1

NULL == "NULL"

(***************************************************************************)
(* Text: strings as sequences of ASCII codes ('-' is 45, '0'..'9' 48..57). *)
(***************************************************************************)
Digit(n) == 48 + n

Dash == <<45>>

\* format spec ":02d" and strftime's %m, %d: at least two digits, zero padded
RECURSIVE Dec(_)
Dec(n) == IF n < 10 THEN <<Digit(n)>> ELSE Dec(n \div 10) \o <<Digit(n % 10)>>

Pad2(n) == IF n < 10 THEN <<Digit(0), Digit(n)>> ELSE Dec(n)

\* strftime's %Y for the years a date widget yields (1000..9999): four digits
Pad4(n) == <<Digit(n \div 1000), Digit((n \div 100) % 10), Digit((n \div 10) % 10), Digit(n % 10)>>

\* date.strftime('%Y-%m-%d')
strftime(d) == Pad4(d.y) \o Dash \o Pad2(d.m) \o Dash \o Pad2(d.d)

\* SQLite BINARY collation: memcmp over the common prefix, then the shorter first
LexLeq(a, b) ==
    LET n == IF Len(a) < Len(b) THEN Len(a) ELSE Len(b)
        diff == {i \in 1..n : a[i] # b[i]}
    IN  IF diff = {} THEN Len(a) <= Len(b)
        ELSE LET i == CHOOSE k \in diff : \A j \in diff : k <= j
             IN  a[i] < b[i]

\* x BETWEEN lo AND hi
Between(x, lo, hi) == LexLeq(lo, x) /\ LexLeq(x, hi)

(***************************************************************************)
(* Calendar dates, as st.date_input yields them (valid dates only).        *)
(***************************************************************************)
IsLeap(y) == (y % 4 = 0 /\ y % 100 # 0) \/ y % 400 = 0

DaysIn(y, m) ==
    IF m = 2 THEN (IF IsLeap(y) THEN 29 ELSE 28)
    ELSE IF m \in {4, 6, 9, 11} THEN 30 ELSE 31

Date(y, m, d) == [y |-> y, m |-> m, d |-> d]

IsDate(x) == x.m \in 1..12 /\ x.d \in 1..DaysIn(x.y, x.m)

(***************************************************************************)
(* Credentials.  SHA-256 is modelled as an injective tagging of the        *)
(* password: equal digests iff equal passwords, and a digest is never the  *)
(* password itself.                                                        *)
(***************************************************************************)
hash_password(password) == <<"sha256", password>>

verify_password(stored_hash, provided_password) ==
    stored_hash = hash_password(provided_password)

UserRows(tbl, username) == {u \in tbl : u.username = username}

\* init_db seeding the password itself instead of its digest
init_db_Plaintext(tbl) ==
    IF UserRows(tbl, "admin") = {}
    THEN tbl \cup {[username |-> "admin", password_hash |-> <<"plain", "admin123">>]}
    ELSE tbl

\* init_db, lines 76-81: seed the admin account unless one is stored
init_db(tbl) ==
    IF UserRows(tbl, "admin") = {}
    THEN tbl \cup {[username |-> "admin", password_hash |-> hash_password("admin123")]}
    ELSE tbl

\* login_user: `user and verify_password(...)`: None for an unknown username
login_user(tbl, username, password) ==
    IF UserRows(tbl, username) = {} THEN "None"
    ELSE LET user == CHOOSE u \in UserRows(tbl, username) : TRUE
         IN  IF verify_password(user.password_hash, password) THEN "True" ELSE "False"

Truthy(v) == v = "True"

(***************************************************************************)
(* The store.  get_db_connection opens the one connection every session    *)
(* shares; it issues no PRAGMA, so the connection runs with SQLite's       *)
(* default foreign_keys = OFF and the FOREIGN KEY clause of the visits     *)
(* table is parsed but not enforced.                                       *)
(***************************************************************************)
foreign_keys == FALSE

Statuses == {"Hidup", "Meninggal Dunia", "Lahir di Sini"}

AVAILABLE_TAGS == {"Injeksi", "EKG", "Konsultasi", "Resep Obat", "Tindakan Bedah Minor", "Pemeriksaan Lab"}

Rows(tbl) == {tbl[i] : i \in 1..Len(tbl)}

PatientIds(tbl) == {p.id : p \in Rows(tbl)}

\* table patients declared without UNIQUE(name, dob)
PatientConstraintFails_NoUnique(tbl, name, dobText) == name = NULL

\* the UNIQUE(name, dob) and NOT NULL constraints of table patients
PatientConstraintFails(tbl, name, dobText) ==
    \/ name = NULL
    \/ \E p \in Rows(tbl) : p.name = name /\ p.dob = dobText

\* add_patient: INSERT, commit, True; IntegrityError is caught: warning, False.
\* created_at (never read by the program) is left out of the row.
add_patient(tbl, name, dob, gender, diagnosis, notes, status, handler_user) ==
    IF PatientConstraintFails(tbl, name, strftime(dob))
    THEN [patients |-> tbl, val |-> "False"]
    ELSE [patients |-> Append(tbl,
                [id |-> Len(tbl) + 1, name |-> name, dob |-> strftime(dob),
                 gender |-> gender, diagnosis |-> diagnosis, notes |-> notes,
                 status |-> status, handler_user |-> handler_user]),
          val |-> "True"]

\* json.dumps of a list of strings: '[' item ', ' item ... ']', as tokens
\* <<"punct", c>> and <<"str", s>>
RECURSIVE JsonItems(_)
JsonItems(tags) ==
    IF tags = <<>> THEN <<>>
    ELSE IF Len(tags) = 1 THEN << <<"str", tags[1]>> >>
    ELSE << <<"str", tags[1]>>, <<"punct", ",">> >> \o JsonItems(Tail(tags))

json_dumps(tags) == << <<"punct", "[">> >> \o JsonItems(tags) \o << <<"punct", "]">> >>

\* json.loads of such a text: the strings between the brackets, in order
RECURSIVE JsonStrings(_)
JsonStrings(tokens) ==
    IF tokens = <<>> THEN <<>>
    ELSE IF tokens[1][1] = "str" THEN <<tokens[1][2]>> \o JsonStrings(Tail(tokens))
    ELSE JsonStrings(Tail(tokens))

json_loads(text) == JsonStrings(SubSeq(text, 2, Len(text) - 1))

\* add_visit: serialise the tags, INSERT, commit, return lastrowid.
\* The INSERT raises IntegrityError (not caught here) only when the
\* connection enforces foreign keys and the patient is missing.
add_visit(ptbl, vtbl, patient_id, visit_date, reason, outcome, progress, tags) ==
    IF foreign_keys /\ patient_id \notin PatientIds(ptbl)
    THEN [visits |-> vtbl, val |-> "raise IntegrityError", lastrowid |-> 0]
    ELSE [visits |-> Append(vtbl,
                [id |-> Len(vtbl) + 1, patient_id |-> patient_id,
                 visit_date |-> strftime(visit_date), reason |-> reason,
                 outcome |-> outcome, progress_status |-> progress,
                 tags |-> json_dumps(tags)]),
          val |-> "ok", lastrowid |-> Len(vtbl) + 1]

\* update_patient_status raising when the UPDATE matched no row
update_patient_status_RowCheck(tbl, patient_id, new_status, handler_user) ==
    IF patient_id \in PatientIds(tbl)
    THEN [patients |->
            [i \in 1..Len(tbl) |->
                IF tbl[i].id = patient_id
                THEN [tbl[i] EXCEPT !.status = new_status, !.handler_user = handler_user]
                ELSE tbl[i]],
          val |-> "None"]
    ELSE [patients |-> tbl, val |-> "raise LookupError"]

\* update_patient_status with WHERE id = ? AND status = 'Hidup'
update_patient_status_FirstWins(tbl, patient_id, new_status, handler_user) ==
    [patients |->
        [i \in 1..Len(tbl) |->
            IF tbl[i].id = patient_id /\ tbl[i].status = "Hidup"
            THEN [tbl[i] EXCEPT !.status = new_status, !.handler_user = handler_user]
            ELSE tbl[i]],
     val |-> "None"]

\* update_patient_status: UPDATE patients SET status = ?, handler_user = ? WHERE id = ?
\* then commit; a WHERE that matches no row updates nothing and raises nothing
update_patient_status(tbl, patient_id, new_status, handler_user) ==
    [patients |->
        [i \in 1..Len(tbl) |->
            IF tbl[i].id = patient_id
            THEN [tbl[i] EXCEPT !.status = new_status, !.handler_user = handler_user]
            ELSE tbl[i]],
     val |-> "None"]

(***************************************************************************)
(* Reports.                                                                *)
(***************************************************************************)
\* SELECT p.id, p.name, p.dob, p.gender, p.diagnosis
Projection(p) ==
    [id |-> p.id, name |-> p.name, dob |-> p.dob, gender |-> p.gender, diagnosis |-> p.diagnosis]

\* patients p JOIN visits v ON p.id = v.patient_id WHERE v.visit_date BETWEEN lo AND hi:
\* one projected row per matching (patient, visit) pair
RECURSIVE JoinVisits(_, _, _, _)
JoinVisits(p, vtbl, lo, hi) ==
    IF vtbl = <<>> THEN <<>>
    ELSE (IF vtbl[1].patient_id = p.id /\ Between(vtbl[1].visit_date, lo, hi)
          THEN <<Projection(p)>> ELSE <<>>)
         \o JoinVisits(p, Tail(vtbl), lo, hi)

RECURSIVE Join(_, _, _, _)
Join(ptbl, vtbl, lo, hi) ==
    IF ptbl = <<>> THEN <<>>
    ELSE JoinVisits(ptbl[1], vtbl, lo, hi) \o Join(Tail(ptbl), vtbl, lo, hi)

\* SELECT DISTINCT: a row is kept the first time it occurs
RECURSIVE Distinct(_)
Distinct(rows) ==
    IF rows = <<>> THEN <<>>
    ELSE LET init == Distinct(SubSeq(rows, 1, Len(rows) - 1))
             last == rows[Len(rows)]
         IN  IF \E i \in 1..Len(init) : init[i] = last THEN init ELSE Append(init, last)

\* get_monthly_report building its bounds with f"{month}" instead of f"{month:02d}"
get_monthly_report_NoPad(ptbl, vtbl, year, month) ==
    LET start_date == Dec(year) \o Dash \o Dec(month) \o Dash \o <<Digit(0), Digit(1)>>
        end_date == Dec(year) \o Dash \o Dec(month) \o Dash \o <<Digit(3), Digit(1)>>
    IN  Distinct(Join(ptbl, vtbl, start_date, end_date))

\* get_monthly_report: the bounds are built with f"{year}-{month:02d}-01" / "-31"
get_monthly_report(ptbl, vtbl, year, month) ==
    LET start_date == Dec(year) \o Dash \o Pad2(month) \o Dash \o <<Digit(0), Digit(1)>>
        end_date == Dec(year) \o Dash \o Pad2(month) \o Dash \o <<Digit(3), Digit(1)>>
    IN  Distinct(Join(ptbl, vtbl, start_date, end_date))

\* SELECT tags FROM visits WHERE tags IS NOT NULL AND tags != '[]'
\* (every row add_visit writes holds a JSON text, so none is NULL)
TaggedVisits(vtbl) ==
    SelectSeq(vtbl, LAMBDA v : v.tags # json_dumps(<<>>))

\* all_tags: json.loads of every selected row, extended in row order
RECURSIVE all_tags(_)
all_tags(rows) ==
    IF rows = <<>> THEN <<>> ELSE json_loads(rows[1].tags) \o all_tags(Tail(rows))

\* Counter(all_tags): the keys are the tags that occur, each with its number of occurrences
Counter(seq) ==
    [t \in {seq[i] : i \in 1..Len(seq)} |-> Cardinality({i \in 1..Len(seq) : seq[i] = t})]

\* sort_values('Jumlah') without ascending=False
SortedFrames_Ascending(counts) ==
    LET n == Cardinality(DOMAIN counts)
    IN  {[i \in 1..n |-> [Tindakan |-> f[i], Jumlah |-> counts[f[i]]]] :
            f \in {g \in [1..n -> DOMAIN counts] :
                     /\ \A i, j \in 1..n : i # j => g[i] # g[j]
                     /\ \A i \in 1..n : i < n => counts[g[i]] <= counts[g[i + 1]]}}

\* DataFrame(counts.items()).sort_values('Jumlah', ascending=False): the rows in
\* any order of non-increasing count (the sort does not fix the order of ties)
SortedFrames(counts) ==
    LET n == Cardinality(DOMAIN counts)
    IN  {[i \in 1..n |-> [Tindakan |-> f[i], Jumlah |-> counts[f[i]]]] :
            f \in {g \in [1..n -> DOMAIN counts] :
                     /\ \A i, j \in 1..n : i # j => g[i] # g[j]
                     /\ \A i \in 1..n : i < n => counts[g[i]] >= counts[g[i + 1]]}}

\* get_action_tags_stats: the frames the call may return (an empty frame when no
\* visit carries a tag)
get_action_tags_stats(vtbl) ==
    IF TaggedVisits(vtbl) = <<>> THEN {<<>>}
    ELSE SortedFrames(Counter(all_tags(TaggedVisits(vtbl))))

(***************************************************************************)
(* Inputs of the model.                                                    *)
(***************************************************************************)
Usernames == {"admin", "perawat"}

Passwords == {"admin123", "rahasia", "wrong"}

Names == {"Ani", "Budi"}

Dobs == {Date(1990, 1, 5), Date(2001, 12, 31)}

\* the users table a run may find: none yet, an admin whose password was
\* changed, or a further account
StoredUsers ==
    { {},
      {[username |-> "admin", password_hash |-> hash_password("rahasia")]},
      {[username |-> "perawat", password_hash |-> hash_password("rahasia")]} }

VisitDates ==
    {d \in {Date(2024, 1, 31), Date(2024, 2, 29), Date(2024, 3, 1), Date(2024, 4, 30),
            Date(2023, 2, 28)} : IsDate(d)}

ReportYears == {2023, 2024}

ReportMonths == {2, 4}

TagLists == {<<>>, <<"Injeksi">>, <<"Injeksi", "EKG">>, <<"EKG", "EKG">>}

(***************************************************************************)
(* Calls on the store, made directly with any arguments.  `ret` records    *)
(* the call and its result.                                                *)
(***************************************************************************)
Call(op, by, args, val, rows) ==
    [op |-> op, by |-> by, args |-> args, val |-> val, rows |-> rows]

Committed(ptbl, vtbl) == [patients |-> ptbl, visits |-> vtbl]

SessionVars == <<session_state, pc, local, lastWrite, authed>>

CallInitDb ==
    /\ users' = init_db(users)
    /\ ret' = Call("init_db", NULL, <<IF users = {} THEN "empty" ELSE "existing">>, "None", <<>>)
    /\ UNCHANGED <<patients, visits, disk, SessionVars>>

CallLogin ==
    \E username \in Usernames, password \in Passwords :
        /\ ret' = Call("login_user", NULL, <<username, password>>,
                       login_user(users, username, password), <<>>)
        /\ UNCHANGED <<users, patients, visits, disk, SessionVars>>

CallAddPatient(names, dobs, statuses, handlers) ==
    \E name \in names, dob \in dobs, status \in statuses, handler \in handlers :
        LET r == add_patient(patients, name, dob, "Perempuan", "", "", status, handler)
        IN  /\ r.val = "True" => Len(patients) < MaxPatients
            /\ patients' = r.patients
            /\ disk' = IF r.val = "True" THEN Committed(patients', visits) ELSE disk
            /\ ret' = Call("add_patient", NULL, <<name, strftime(dob)>>, r.val, <<>>)
            /\ UNCHANGED <<users, visits, SessionVars>>

CallUpdateStatus(statuses, handlers) ==
    \E patient_id \in 1..(Len(patients) + 1), status \in statuses, handler \in handlers :
        LET r == update_patient_status(patients, patient_id, status, handler)
        IN  /\ patients' = r.patients
            /\ disk' = IF r.val = "None" THEN Committed(patients', visits) ELSE disk
            /\ ret' = Call("update_patient_status", NULL, <<patient_id, status, handler>>, r.val, <<>>)
            /\ UNCHANGED <<users, visits, SessionVars>>

CallAddVisit(dates, taglists, max) ==
    \E patient_id \in 1..(Len(patients) + 1), visit_date \in dates, tags \in taglists :
        LET r == add_visit(patients, visits, patient_id, visit_date, "", "", "Membaik", tags)
        IN  /\ r.val = "ok" => Len(visits) < max
            /\ visits' = r.visits
            /\ disk' = IF r.val = "ok" THEN Committed(patients, visits') ELSE disk
            /\ ret' = Call("add_visit", NULL, <<patient_id, tags>>, r.val, <<r.lastrowid>>)
            /\ UNCHANGED <<users, patients, SessionVars>>

CallMonthlyReport ==
    \E year \in ReportYears, month \in ReportMonths :
        /\ ret' = Call("get_monthly_report", NULL, <<year, month>>, "ok",
                       get_monthly_report(patients, visits, year, month))
        /\ UNCHANGED <<users, patients, visits, disk, SessionVars>>

CallTagStats ==
    \E frame \in get_action_tags_stats(visits) :
        /\ ret' = Call("get_action_tags_stats", NULL, <<>>, "ok", frame)
        /\ UNCHANGED <<users, patients, visits, disk, SessionVars>>

(***************************************************************************)
(* Sessions.  st.session_state is a dictionary: a function on the keys it  *)
(* holds.                                                                  *)
(***************************************************************************)
Sessions == {"s1", "s2"}

EmptyDict == [k \in {} |-> NULL]

Put(d, k, v) == [x \in DOMAIN d \cup {k} |-> IF x = k THEN v ELSE d[x]]

\* main, line 322: if 'logged_in' not in st.session_state: ... = False
main_defaults(d) == IF "logged_in" \in DOMAIN d THEN d ELSE Put(d, "logged_in", FALSE)

NoPage == [selected_id |-> 0, button |-> FALSE, form |-> FALSE]

InitStore(stores) ==
    /\ \E stored \in stores :
        /\ users = init_db(stored)
        /\ ret = Call("init_db", NULL, <<IF stored = {} THEN "empty" ELSE "existing">>, "None", <<>>)
    /\ patients = <<>>
    /\ visits = <<>>
    /\ disk = Committed(<<>>, <<>>)
    /\ session_state = [s \in Sessions |-> main_defaults(EmptyDict)]
    /\ pc = [s \in Sessions |-> "idle"]
    /\ local = [s \in Sessions |-> NoPage]
    /\ lastWrite = EmptyDict
    /\ authed = [s \in Sessions |-> NULL]

(***************************************************************************)
(* The credential store, called directly, on every users table a run may   *)
(* find.                                                                   *)
(***************************************************************************)
InitAuth == InitStore(StoredUsers)

NextAuth ==
    \/ CallInitDb
    \/ CallLogin
    \/ CallAddPatient(Names, Dobs, {"Hidup"}, {NULL})

SpecAuth == InitAuth /\ [][NextAuth]_vars

(***************************************************************************)
(* The patient registry, called directly.                                  *)
(***************************************************************************)
InitRegistry == InitStore({{}})

NextRegistry ==
    \/ CallAddPatient(Names \cup {NULL}, Dobs, {"Hidup"}, {NULL})
    \/ CallUpdateStatus({"Meninggal Dunia"}, {"admin"})
    \/ CallAddVisit({Date(2024, 2, 29)}, {<<>>}, MaxVisits)

SpecRegistry == InitRegistry /\ [][NextRegistry]_vars

InitStatus == InitStore({{}})

NextStatus ==
    \/ CallAddPatient({"Ani"}, Dobs, {"Hidup"}, {NULL})
    \/ CallUpdateStatus(Statuses, {NULL, "admin", "perawat"})

SpecStatus == InitStatus /\ [][NextStatus]_vars

(***************************************************************************)
(* The visit ledger and the reports, called directly.                      *)
(***************************************************************************)
InitLedger == InitStore({{}})

NextLedger ==
    \/ CallAddPatient({"Ani"}, Dobs, {"Hidup"}, {NULL})
    \/ CallAddVisit(VisitDates, {<<>>}, MaxVisits)
    \/ CallMonthlyReport

SpecLedger == InitLedger /\ [][NextLedger]_vars

InitTags == InitStore({{}})

NextTags ==
    \/ CallAddPatient({"Ani"}, {Date(1990, 1, 5)}, {"Hidup"}, {NULL})
    \/ CallAddVisit({Date(2024, 2, 29)}, TagLists, MaxTagVisits)
    \/ CallTagStats

SpecTags == InitTags /\ [][NextTags]_vars

(***************************************************************************)
(* The application: Streamlit runs main() once per interaction of a        *)
(* session, each session's run in a thread of its own over the one shared  *)
(* connection.  A run is one step, except where the claims need the        *)
(* interleaving: between the SELECT of the details page (line 284) and the *)
(* UPDATE (line 116), and between the UPDATE and its commit (line 117).    *)
(***************************************************************************)
\* main, line 324: everything but the login screen is behind this test
Gate(s) == session_state[s]["logged_in"] = TRUE

\* the login form of login_screen (its body is not in the file): a successful
\* login_user marks the session logged in as that user
login_screen(d, tbl, username, password) ==
    IF Truthy(login_user(tbl, username, password))
    THEN Put(Put(d, "logged_in", TRUE), "username", username)
    ELSE d

\* st.session_state.clear() without effect
session_clear_Keep(d) == d

\* main_app_integrated, the Logout button: st.session_state.clear()
session_clear(d) == EmptyDict

\* the registration form recording no handler
FormHandler_None(status, username) == NULL

\* main_app, line 210: the handler recorded by the registration form
FormHandler(status, username) == IF status = "Lahir di Sini" THEN username ELSE NULL

\* the details page offering the button whatever the status
ShowsDeceaseButton_Always(patient) == TRUE

\* display_patient_details_page, line 288: the 'mark as deceased' button is
\* offered for a patient read as 'Hidup'
ShowsDeceaseButton(patient) == patient.status = "Hidup"

\* display_patient_details_page for the selected patient.  For a patient that
\* is not 'Hidup' line 294 calls patient.get, which sqlite3.Row does not have:
\* the run ends there with AttributeError, before the add-visit form.
RenderDetails(tbl, selected_id) ==
    IF ShowsDeceaseButton(tbl[selected_id])
    THEN [selected_id |-> selected_id, button |-> TRUE, form |-> TRUE]
    ELSE [selected_id |-> selected_id, button |-> FALSE, form |-> FALSE]

FormNames == {"", "Ani", "Budi"}

FormDobs == {Date(1990, 1, 5)}

FormStatuses == {"Hidup", "Lahir di Sini"}

FormVisitDates == {Date(2024, 2, 29)}

FormTags == {<<"EKG">>}

\* main, lines 320-321, at the start of every script run: init_db on the shared
\* connection, whose conn.commit() also commits whatever another session's
\* run has written and not yet committed.  A run's own INSERT is committed by
\* add_patient / add_visit before the run ends (a refused INSERT writes nothing).
RunMain ==
    /\ users' = init_db(users)
    /\ disk' = Committed(patients', visits')

LoginSubmit(s) ==
    \E username \in Usernames, password \in Passwords :
        /\ pc[s] = "idle"
        /\ ~Gate(s)
        /\ session_state' = [session_state EXCEPT ![s] = login_screen(@, users, username, password)]
        /\ authed' = [authed EXCEPT ![s] =
                        IF Truthy(login_user(users, username, password)) THEN username ELSE @]
        /\ UNCHANGED <<patients, visits, ret, pc, local, lastWrite>>
        /\ RunMain

Logout(s) ==
    /\ pc[s] = "idle"
    /\ Gate(s)
    /\ session_state' = [session_state EXCEPT ![s] = main_defaults(session_clear(@))]
    /\ local' = [local EXCEPT ![s] = NoPage]
    /\ authed' = [authed EXCEPT ![s] = NULL]
    /\ UNCHANGED <<patients, visits, ret, pc, lastWrite>>
    /\ RunMain

SubmitPatientForm(s) ==
    \E name \in FormNames, dob \in FormDobs, status \in FormStatuses :
        /\ pc[s] = "idle"
        /\ Gate(s)
        /\ IF name = ""
           THEN UNCHANGED <<patients, ret>>
           ELSE LET handler == FormHandler(status, session_state[s]["username"])
                    r == add_patient(patients, name, dob, "Perempuan", "", "", status, handler)
                IN  /\ r.val = "True" => Len(patients) < MaxPatients
                    /\ patients' = r.patients
                    /\ ret' = Call("add_patient", s, <<>>, r.val, <<>>)
        /\ local' = [local EXCEPT ![s] = NoPage]
        /\ UNCHANGED <<visits, session_state, pc, lastWrite, authed>>
        /\ RunMain

ViewPatient(s) ==
    \E selected_id \in PatientIds(patients) :
        /\ pc[s] = "idle"
        /\ Gate(s)
        /\ local' = [local EXCEPT ![s] = RenderDetails(patients, selected_id)]
        /\ UNCHANGED <<patients, visits, ret, session_state, pc, lastWrite, authed>>
        /\ RunMain

\* the run after a click on 'mark as deceased': the patient is read again
ClickDecease(s) ==
    /\ pc[s] = "idle"
    /\ Gate(s)
    /\ local[s].button
    /\ IF ShowsDeceaseButton(patients[local[s].selected_id])
       THEN /\ pc' = [pc EXCEPT ![s] = "update"]
            /\ UNCHANGED local
       ELSE /\ local' = [local EXCEPT ![s] = RenderDetails(patients, local[s].selected_id)]
            /\ UNCHANGED pc
    /\ UNCHANGED <<patients, visits, ret, session_state, lastWrite, authed>>
    /\ RunMain

\* update_patient_status, line 116
ExecUpdate(s) ==
    /\ pc[s] = "update"
    /\ LET selected_id == local[s].selected_id
           username == session_state[s]["username"]
           r == update_patient_status(patients, selected_id, "Meninggal Dunia", username)
       IN  /\ patients' = r.patients
           /\ ret' = Call("update_patient_status", s, <<>>, r.val, <<>>)
           /\ lastWrite' = Put(lastWrite, selected_id, username)
           /\ pc' = [pc EXCEPT ![s] = IF r.val = "None" THEN "commit" ELSE "idle"]
    /\ UNCHANGED <<users, visits, disk, session_state, local, authed>>

\* update_patient_status, line 117 (conn.commit()), then st.rerun(): the page is drawn again
CommitUpdate(s) ==
    /\ pc[s] = "commit"
    /\ pc' = [pc EXCEPT ![s] = "idle"]
    /\ local' = [local EXCEPT ![s] = RenderDetails(patients, local[s].selected_id)]
    /\ UNCHANGED <<patients, visits, ret, session_state, lastWrite, authed>>
    /\ RunMain

\* the run after 'Simpan Kunjungan': the patient is read again; add_visit runs
\* when the page gets as far as the form
SubmitVisitForm(s) ==
    \E visit_date \in FormVisitDates, tags \in FormTags :
        /\ pc[s] = "idle"
        /\ Gate(s)
        /\ local[s].form
        /\ IF RenderDetails(patients, local[s].selected_id).form
           THEN LET r == add_visit(patients, visits, local[s].selected_id, visit_date,
                                   "", "", "Membaik", tags)
                IN  /\ r.val = "ok" => Len(visits) < MaxFormVisits
                    /\ visits' = r.visits
                    /\ ret' = Call("add_visit", s, <<>>, r.val, <<>>)
                    /\ UNCHANGED local
           ELSE /\ local' = [local EXCEPT ![s] = RenderDetails(patients, local[s].selected_id)]
                /\ UNCHANGED <<visits, ret>>
        /\ UNCHANGED <<patients, session_state, pc, lastWrite, authed>>
        /\ RunMain

\* the reports page, 'Buat Laporan': a warning for an empty report, else the table
ClickReport(s) ==
    /\ pc[s] = "idle"
    /\ Gate(s)
    /\ ret' = Call("get_monthly_report", s, <<>>,
                   IF get_monthly_report(patients, visits, 2024, 2) = <<>> THEN "empty" ELSE "ok",
                   <<>>)
    /\ local' = [local EXCEPT ![s] = NoPage]
    /\ UNCHANGED <<patients, visits, session_state, pc, lastWrite, authed>>
    /\ RunMain

Init ==
    InitStore({{[username |-> "perawat", password_hash |-> hash_password("rahasia")]}})

Next ==
    \E s \in Sessions :
        \/ LoginSubmit(s)
        \/ Logout(s)
        \/ SubmitPatientForm(s)
        \/ ViewPatient(s)
        \/ ClickDecease(s)
        \/ ExecUpdate(s)
        \/ CommitUpdate(s)
        \/ SubmitVisitForm(s)
        \/ ClickReport(s)

Spec == Init /\ [][Next]_vars

(***************************************************************************)
(* Properties of the store's functions.                                    *)
(***************************************************************************)
HasPair(tbl, name, dobText) == \E p \in Rows(tbl) : p.name = name /\ p.dob = dobText

UniquePairs(tbl) ==
    \A i, j \in 1..Len(tbl) : i # j => <<tbl[i].name, tbl[i].dob>> # <<tbl[j].name, tbl[j].dob>>

C1_AddPatientStep ==
    (ret'.op = "add_patient" /\ (ret' # ret \/ patients' # patients)) =>
        LET name == ret'.args[1]
            dobText == ret'.args[2]
        IN  /\ HasPair(patients, name, dobText) =>
                ret'.val = "False" /\ patients' = patients
            /\ (~HasPair(patients, name, dobText) /\ name # NULL) =>
                /\ ret'.val = "True"
                /\ Len(patients') = Len(patients) + 1
                /\ SubSeq(patients', 1, Len(patients)) = patients
                /\ patients'[Len(patients')].name = name
                /\ patients'[Len(patients')].dob = dobText

\* C1: add_patient with a (name, dob) pair not yet stored succeeds and stores
\* one patient; with a pair already stored it returns False and leaves the
\* patients table unchanged; so no two stored patients ever share (name, dob),
\* whatever add_patient, update_patient_status and add_visit calls were made.
C1_UniqueNameDob == [](UniquePairs(patients)) /\ [][C1_AddPatientStep]_vars

\* the second registration of a pair has just been refused, and the pair is stored once
C1_Witness ==
    /\ ret.op = "add_patient"
    /\ ret.val = "False"
    /\ Cardinality({i \in 1..Len(patients) :
            patients[i].name = ret.args[1] /\ patients[i].dob = ret.args[2]}) = 1
    /\ Len(visits) > 0
    /\ \E p \in Rows(patients) : p.status = "Meninggal Dunia"

\* C2: an add_visit whose patient_id references no stored patient fails with a
\* foreign-key error, and every stored visit references a stored patient.
C2_VisitsReferencePatients ==
    /\ (ret.op = "add_visit" /\ ret.args[1] \notin PatientIds(patients)) =>
            ret.val = "raise IntegrityError"
    /\ \A v \in Rows(visits) : v.patient_id \in PatientIds(patients)

\* C3: right after init_db on an empty store admin / admin123 logs in; a login
\* with a username that is not stored, or with a password whose digest is not
\* the stored one, is refused (a false value: False or None) and nothing is raised.
C3_Login ==
    /\ (ret.op = "init_db" /\ ret.args = <<"empty">>) =>
            Truthy(login_user(users, "admin", "admin123"))
    /\ ret.op = "login_user" =>
            /\ ret.val \in {"True", "False", "None"}
            /\ (\A u \in UserRows(users, ret.args[1]) :
                    u.password_hash # hash_password(ret.args[2])) => ~Truthy(ret.val)
            /\ (\E u \in UserRows(users, ret.args[1]) :
                    u.password_hash = hash_password(ret.args[2])) => Truthy(ret.val)

\* a login with a username the users table does not hold has just been refused
C3_Witness ==
    /\ ret.op = "login_user"
    /\ UserRows(users, ret.args[1]) = {}
    /\ ~Truthy(ret.val)

C6_Idempotent(tbl) ==
    \A patient_id \in 1..(Len(tbl) + 1), status \in Statuses, handler \in {NULL, "admin", "perawat"} :
        LET once == update_patient_status(tbl, patient_id, status, handler)
            twice == update_patient_status(once.patients, patient_id, status, handler)
        IN  /\ once.val = "None"
            /\ twice.val = "None"
            /\ twice.patients = once.patients

C6_RepeatedStep ==
    (/\ ret.op = "update_patient_status"
     /\ ret'.op = "update_patient_status"
     /\ ret'.args = ret.args) =>
        /\ ret'.val = "None"
        /\ patients' = patients
        /\ visits' = visits
        /\ disk' = disk

\* C6: update_patient_status called again with the same (patient_id, status,
\* handler_user) leaves the store as the first call left it, for stored and
\* for unknown patient ids, and no call raises.
C6_UpdateIdempotent == [](C6_Idempotent(patients)) /\ [][C6_RepeatedStep]_vars /\ [](ret.op = "update_patient_status" => ret.val = "None")

\* an update has just rewritten a stored patient's status and handler
C6_Witness ==
    /\ ret.op = "update_patient_status"
    /\ ret.args[1] \in PatientIds(patients)
    /\ patients[ret.args[1]].status = "Meninggal Dunia"
    /\ patients[ret.args[1]].handler_user = "perawat"

\* the calendar year and month a stored 'YYYY-MM-DD' text denotes
YearOf(text) == (text[1] - 48) * 1000 + (text[2] - 48) * 100 + (text[3] - 48) * 10 + (text[4] - 48)

MonthOf(text) == (text[6] - 48) * 10 + (text[7] - 48)

VisitedIn(ptbl, vtbl, year, month) ==
    {p.id : p \in {q \in Rows(ptbl) :
        \E v \in Rows(vtbl) :
            /\ v.patient_id = q.id
            /\ YearOf(v.visit_date) = year
            /\ MonthOf(v.visit_date) = month}}

\* C7: get_monthly_report(year, month) holds each patient at most once, and a
\* patient is in it exactly when one of its visits is dated in that calendar
\* month (the last day of the month included, other months excluded), which is
\* exactly when the date text lies between 'YYYY-MM-01' and 'YYYY-MM-31'.
C7_MonthlyReport ==
    /\ \A year \in ReportYears, month \in 1..12 :
        LET rows == get_monthly_report(patients, visits, year, month)
        IN  /\ \A i, j \in 1..Len(rows) : i # j => rows[i].id # rows[j].id
            /\ {rows[i].id : i \in 1..Len(rows)} = VisitedIn(patients, visits, year, month)
            /\ \A i \in 1..Len(rows) : \E p \in Rows(patients) : rows[i] = Projection(p)
    /\ ret.op = "get_monthly_report" =>
        ret.rows = get_monthly_report(patients, visits, ret.args[1], ret.args[2])

\* the report of February 2024 has just listed once a patient with two visits on 2024-02-29
C7_Witness ==
    /\ ret.op = "get_monthly_report"
    /\ ret.args = <<2024, 2>>
    /\ Len(ret.rows) = 1
    /\ Cardinality({i \in 1..Len(visits) :
            /\ visits[i].patient_id = ret.rows[1].id
            /\ visits[i].visit_date = strftime(Date(2024, 2, 29))}) = 2

\* the number of times tag t occurs in a tag list
Occurrences(tags, t) == Cardinality({i \in 1..Len(tags) : tags[i] = t})

\* the count a frame gives tag t (0 when the frame has no row for it)
CountIn(frame, t) ==
    IF \E i \in 1..Len(frame) : frame[i].Tindakan = t
    THEN (frame[CHOOSE i \in 1..Len(frame) : frame[i].Tindakan = t]).Jumlah
    ELSE 0

C8_Frames(vtbl) ==
    /\ vtbl = <<>> => get_action_tags_stats(vtbl) = {<<>>}
    /\ get_action_tags_stats(vtbl) # {}
    /\ \A frame \in get_action_tags_stats(vtbl) :
        /\ \A i, j \in 1..Len(frame) : i # j => frame[i].Tindakan # frame[j].Tindakan
        /\ \A i \in 1..Len(frame) : frame[i].Jumlah > 0
        /\ \A i \in 1..Len(frame) : i < Len(frame) => frame[i].Jumlah >= frame[i + 1].Jumlah
        /\ \A other \in get_action_tags_stats(vtbl), t \in AVAILABLE_TAGS :
                CountIn(other, t) = CountIn(frame, t)

C8_AddVisitStep ==
    (ret'.op = "add_visit" /\ visits' # visits) =>
        \A before \in get_action_tags_stats(visits), after \in get_action_tags_stats(visits'),
           t \in AVAILABLE_TAGS :
            CountIn(after, t) = CountIn(before, t) + Occurrences(ret'.args[2], t)

\* C8: get_action_tags_stats gives every tag the number of its occurrences over
\* the tag lists of all visits (none on an empty ledger, and each add_visit
\* adds the occurrences of its own list, duplicates included, an empty list
\* adding nothing); a tag that occurs nowhere has no row; the rows are in
\* order of non-increasing count.
C8_TagStats ==
    /\ [](C8_Frames(visits))
    /\ [][C8_AddVisitStep]_vars
    /\ [](ret.op = "get_action_tags_stats" => ret.rows \in get_action_tags_stats(visits))

\* the ledger holds the tag lists [Injeksi, EKG], [Injeksi], [] and the stats
\* just returned are Injeksi: 2, EKG: 1
C8_Witness ==
    /\ ret.op = "get_action_tags_stats"
    /\ ret.rows = <<[Tindakan |-> "Injeksi", Jumlah |-> 2], [Tindakan |-> "EKG", Jumlah |-> 1]>>
    /\ Len(visits) = 3
    /\ {visits[i].tags : i \in 1..3} =
            {json_dumps(<<"Injeksi", "EKG">>), json_dumps(<<"Injeksi">>), json_dumps(<<>>)}
    /\ \E i, j \in 1..3 : visits[i].patient_id # visits[j].patient_id

(***************************************************************************)
(* Properties of the application.                                          *)
(***************************************************************************)
C4_SessionState ==
    \A s \in Sessions :
        /\ Gate(s) =>
            /\ authed[s] # NULL
            /\ "username" \in DOMAIN session_state[s]
            /\ session_state[s]["username"] = authed[s]
        /\ ~Gate(s) =>
            /\ authed[s] = NULL
            /\ DOMAIN session_state[s] = {"logged_in"}
            /\ local[s] = NoPage
            /\ pc[s] = "idle"

C4_Step ==
    /\ \A s \in Sessions :
        /\ (pc'[s] # pc[s] \/ (local'[s] # local[s] /\ local'[s] # NoPage)) => Gate(s)
        /\ (~Gate(s) /\ Gate(s)') =>
                \E password \in Passwords :
                    Truthy(login_user(users, session_state'[s]["username"], password))
        /\ (Gate(s) /\ Gate(s)') => session_state'[s] = session_state[s]
    /\ (ret' # ret \/ patients' # patients \/ visits' # visits) =>
            ret'.by \in Sessions /\ Gate(ret'.by)

\* C4: every session starts logged out; it is logged in as u exactly from a
\* successful login as u in that session until its next logout, which leaves
\* it logged out with nothing but logged_in = False in its session state and
\* no page; every registry, ledger and report operation is made by a session
\* that is logged in.
C4_SessionGate ==
    /\ \A s \in Sessions : ~Gate(s)
    /\ [](C4_SessionState)
    /\ [][C4_Step]_vars

\* s2 registered a patient and has logged out since; s1 is logged in
C4_Witness ==
    /\ Gate("s1")
    /\ ~Gate("s2")
    /\ ret.op = "add_patient"
    /\ ret.by = "s2"
    /\ ret.val = "True"

C5_Step ==
    /\ Len(patients') >= Len(patients)
    /\ \A i \in 1..Len(patients) :
        patients'[i].status # patients[i].status =>
            patients[i].status = "Hidup" /\ patients'[i].status = "Meninggal Dunia"
    /\ \A i \in (Len(patients) + 1)..Len(patients') :
        patients'[i].status \in {"Hidup", "Lahir di Sini"}

\* C5: through the application a patient is created as 'Hidup' or 'Lahir di
\* Sini', no patient is removed, and the only change of status is 'Hidup' to
\* 'Meninggal Dunia'.
C5_StatusLifecycle == [][C5_Step]_vars

\* one patient born here, one marked deceased, and a visit recorded
C5_Witness ==
    /\ \E p \in Rows(patients) : p.status = "Lahir di Sini"
    /\ \E p \in Rows(patients) : p.status = "Meninggal Dunia"
    /\ Len(visits) > 0

C9_Step ==
    \A s \in Sessions :
        (pc[s] = "update" /\ pc'[s] # "update") =>
            /\ ret'.val = "None"
            /\ pc'[s] = "commit"
            /\ patients'[local[s].selected_id].status = "Meninggal Dunia"
            /\ patients'[local[s].selected_id].handler_user = session_state[s]["username"]

C9_State ==
    /\ \A id \in DOMAIN lastWrite :
        /\ patients[id].status = "Meninggal Dunia"
        /\ patients[id].handler_user = lastWrite[id]
    /\ \A s \in Sessions :
        pc[s] = "commit" => patients[local[s].selected_id].status = "Meninggal Dunia"
    /\ (\A s \in Sessions : pc[s] = "idle") => disk.patients = patients

\* C9: a session that read the patient as 'Hidup' and pressed the button
\* always gets its UPDATE through without error, also when another session's
\* UPDATE of the same patient came first; the patient is then 'Meninggal
\* Dunia' with the handler of the UPDATE executed last, and that is what is
\* committed once no update is in flight.
C9_LastWriteWins == [](C9_State) /\ [][C9_Step]_vars

\* both sessions, logged in as different users, read the same patient as
\* 'Hidup' and have both executed their UPDATE; the handler is the later one's
C9_Witness ==
    /\ pc["s1"] = "commit"
    /\ pc["s2"] = "commit"
    /\ local["s1"].selected_id = local["s2"].selected_id
    /\ session_state["s1"]["username"] # session_state["s2"]["username"]
    /\ ret.by = "s2"
    /\ patients[local["s1"].selected_id].handler_user = session_state["s2"]["username"]

\* C10: through the application every stored patient has a handler_user
\* exactly when its status is not 'Hidup'.
C10_HandlerIffNotAlive ==
    \A p \in Rows(patients) \cup Rows(disk.patients) :
        (p.handler_user # NULL) <=> (p.status # "Hidup")

\* one patient registered as born here and one marked deceased, by different users
C10_Witness ==
    \E p, q \in Rows(patients) :
        /\ p.status = "Lahir di Sini"
        /\ q.status = "Meninggal Dunia"
        /\ p.handler_user # NULL
        /\ q.handler_user # NULL
        /\ p.handler_user # q.handler_user

====
